---- MODULE Spec2Model ----
(***************************************************************************)
(* Model of the solvers of misfits42/aoc2022:                              *)
(*   - src/bin/day19.rs  the geode search (simulate_blueprint and          *)
(*                       simulate_blueprint_recursive)                     *)
(* The recursion of day 19 is modelled as a machine with an explicit call  *)
(* stack: one stack entry per active call of simulate_blueprint_recursive, *)
(* holding the call's parameters and its position in the body.  The two    *)
(* objects the calls share by &mut reference, geode_totals and             *)
(* earliest_geode_robot_time, are variables of the machine.                *)
(***************************************************************************)
EXTENDS Integers, Sequences, FiniteSets, TLC

\* ------------------------------------------------------------------------
\* Bounds of the model.
\* ------------------------------------------------------------------------

\* Largest time_allowed handed to simulate_blueprint in Spec.
MaxTime == 8

\* Robot costs a modelled blueprint line may state (the parser reads \d+).
CostValues == {0, 1, 2}

\* Blueprint ids of the modelled blueprints.
BlueprintIds == {1, 2}

\* ------------------------------------------------------------------------
\* day19.rs: the data model.
\* ------------------------------------------------------------------------

\* enum RobotType, in declaration (= EnumIter) order.
RobotTypes == <<"OreRobot", "ClayRobot", "ObsidianRobot", "GeodeRobot">>

\* ResourceBag::new
NewBag(ore, clay, obsidian, geode) ==
    [ore |-> ore, clay |-> clay, obsidian |-> obsidian, geode |-> geode]

\* ResourceBag::blank
blank == NewBag(0, 0, 0, 0)

\* Mutant of fits_within: one component (obsidian) is not compared.
fits_within_no_obsidian(self, other) ==
    /\ self.ore >= other.ore
    /\ self.clay >= other.clay
    /\ self.geode >= other.geode

\* ResourceBag::fits_within(&self, other): self is the receiver.
fits_within(self, other) ==
    /\ self.ore >= other.ore
    /\ self.clay >= other.clay
    /\ self.obsidian >= other.obsidian
    /\ self.geode >= other.geode

\* Blueprint::new applied as process_input_file applies it: the seven
\* numbers of a blueprint line land in these components, all others are 0.
NewBlueprint(id, ore_ore, clay_ore, obs_ore, obs_clay, geo_ore, geo_obs) ==
    [id             |-> id,
     ore_robot      |-> NewBag(ore_ore, 0, 0, 0),
     clay_robot     |-> NewBag(clay_ore, 0, 0, 0),
     obsidian_robot |-> NewBag(obs_ore, obs_clay, 0, 0),
     geode_robot    |-> NewBag(geo_ore, 0, geo_obs, 0)]

\* The blueprints process_input_file can return for lines whose numbers are
\* in CostValues.
Blueprints ==
    { NewBlueprint(id, a, b, c1, c2, d1, d2) :
        id \in BlueprintIds, a \in CostValues, b \in CostValues,
        c1 \in CostValues, c2 \in CostValues,
        d1 \in CostValues, d2 \in CostValues }

\* itertools' combinations(r) of a sequence: the r-element subsequences in
\* lexicographic order of their positions.
RECURSIVE combinations(_, _)
combinations(pool, r) ==
    IF r = 0 THEN << <<>> >>
    ELSE IF Len(pool) < r THEN << >>
    ELSE LET with == combinations(Tail(pool), r - 1)
             without == combinations(Tail(pool), r)
         IN [i \in 1..Len(with) |-> <<Head(pool)>> \o with[i]] \o without

\* ROBOT_COMBOS with the largest combinations first.
ROBOT_COMBOS_largest_first ==
    combinations(RobotTypes, 4) \o combinations(RobotTypes, 3)
        \o combinations(RobotTypes, 2) \o combinations(RobotTypes, 1)

\* lazy_static ROBOT_COMBOS
ROBOT_COMBOS ==
    combinations(RobotTypes, 1) \o combinations(RobotTypes, 2)
        \o combinations(RobotTypes, 3) \o combinations(RobotTypes, 4)

\* The cost the match arms of simulate_blueprint_recursive read for a robot.
RobotCost(blueprint, robot) ==
    CASE robot = "OreRobot"      -> blueprint.ore_robot
      [] robot = "ClayRobot"     -> blueprint.clay_robot
      [] robot = "ObsidianRobot" -> blueprint.obsidian_robot
      [] robot = "GeodeRobot"    -> blueprint.geode_robot

\* resources_needed that charges the first robot of a combo only.
resources_needed_first_robot(blueprint, combo) ==
    IF combo = << >> THEN blank
    ELSE LET cost == RobotCost(blueprint, Head(combo))
         IN NewBag(cost.ore, cost.clay, cost.obsidian, 0)

\* resources_needed after the inner loop over the robots of a combo: ore,
\* clay and obsidian are summed, geode is left at 0.
RECURSIVE resources_needed(_, _)
resources_needed(blueprint, combo) ==
    IF combo = << >> THEN blank
    ELSE LET rest == resources_needed(blueprint, Tail(combo))
             cost == RobotCost(blueprint, Head(combo))
         IN NewBag(rest.ore + cost.ore, rest.clay + cost.clay,
                   rest.obsidian + cost.obsidian, rest.geode)

\* build_options that starts from an empty vector.
build_options_without_empty(blueprint, resource_total) ==
    SelectSeq(ROBOT_COMBOS,
              LAMBDA combo :
                  fits_within(resource_total, resources_needed(blueprint, combo)))

\* build_options: the empty option first, then every combo of ROBOT_COMBOS,
\* in order, that resource_total.fits_within(&resources_needed) accepts.
build_options(blueprint, resource_total) ==
    << <<>> >> \o
    SelectSeq(ROBOT_COMBOS,
              LAMBDA combo :
                  fits_within(resource_total, resources_needed(blueprint, combo)))

\* build_robot without the return of the geode arm.
build_robot_never_returns(blueprint, robot, time_remaining, st) ==
    LET cost == RobotCost(blueprint, robot)
        rc == st.robot_construction
        rt == st.resource_total
    IN [returned |-> FALSE,
        earliest |-> IF robot = "GeodeRobot" /\ time_remaining > st.earliest
                     THEN time_remaining ELSE st.earliest,
        robot_construction |->
            [rc EXCEPT
               !.ore = @ + (IF robot = "OreRobot" THEN 1 ELSE 0),
               !.clay = @ + (IF robot = "ClayRobot" THEN 1 ELSE 0),
               !.obsidian = @ + (IF robot = "ObsidianRobot" THEN 1 ELSE 0),
               !.geode = @ + (IF robot = "GeodeRobot" THEN 1 ELSE 0)],
        resource_total |->
            [rt EXCEPT !.ore = @ - cost.ore,
                       !.clay = @ - cost.clay,
                       !.obsidian = @ - cost.obsidian]]

\* build_robot whose geode arm returns at the counter's own time as well.
build_robot_equal_returns(blueprint, robot, time_remaining, st) ==
    LET cost == RobotCost(blueprint, robot)
        rc == st.robot_construction
        rt == st.resource_total
    IN IF robot = "GeodeRobot" /\ time_remaining <= st.earliest
       THEN [st EXCEPT !.returned = TRUE]
       ELSE [returned |-> FALSE,
             earliest |-> IF robot = "GeodeRobot" THEN time_remaining
                          ELSE st.earliest,
             robot_construction |->
                 [rc EXCEPT
                    !.ore = @ + (IF robot = "OreRobot" THEN 1 ELSE 0),
                    !.clay = @ + (IF robot = "ClayRobot" THEN 1 ELSE 0),
                    !.obsidian = @ + (IF robot = "ObsidianRobot" THEN 1 ELSE 0),
                    !.geode = @ + (IF robot = "GeodeRobot" THEN 1 ELSE 0)],
             resource_total |->
                 [rt EXCEPT !.ore = @ - cost.ore,
                            !.clay = @ - cost.clay,
                            !.obsidian = @ - cost.obsidian]]

\* One robot of a build option (a match arm of the loop over build_option):
\* the geode arm first compares time_remaining with the shared counter and
\* may return from the whole call; every arm then queues the robot and pays
\* its ore, clay and obsidian.  st carries the locals and the counter.
build_robot(blueprint, robot, time_remaining, st) ==
    LET cost == RobotCost(blueprint, robot)
        earliest == IF robot = "GeodeRobot" /\ time_remaining > st.earliest
                    THEN time_remaining ELSE st.earliest
        returned == robot = "GeodeRobot" /\ time_remaining < st.earliest
        rc == st.robot_construction
        rt == st.resource_total
    IN IF returned
       THEN [st EXCEPT !.returned = TRUE]
       ELSE [returned |-> FALSE,
             earliest |-> earliest,
             robot_construction |->
                 [rc EXCEPT
                    !.ore = @ + (IF robot = "OreRobot" THEN 1 ELSE 0),
                    !.clay = @ + (IF robot = "ClayRobot" THEN 1 ELSE 0),
                    !.obsidian = @ + (IF robot = "ObsidianRobot" THEN 1 ELSE 0),
                    !.geode = @ + (IF robot = "GeodeRobot" THEN 1 ELSE 0)],
             resource_total |->
                 [rt EXCEPT !.ore = @ - cost.ore,
                            !.clay = @ - cost.clay,
                            !.obsidian = @ - cost.obsidian]]

\* The loop over the robots of one build option, left at the first return.
RECURSIVE build_robots(_, _, _, _)
build_robots(blueprint, build_option, time_remaining, st) ==
    IF build_option = << >> \/ st.returned THEN st
    ELSE build_robots(blueprint, Tail(build_option), time_remaining,
                      build_robot(blueprint, Head(build_option), time_remaining, st))

\* prune with the ore and clay tests one minute late.
prune_one_minute_late(time_remaining, robot_total, robot_construction) ==
    \/ time_remaining = 2 /\ robot_total.geode = 0 /\ robot_construction.geode = 0
    \/ time_remaining <= 4 /\ robot_construction.obsidian > 0
    \/ time_remaining <= 6 /\ robot_construction.clay > 0
    \/ time_remaining <= 13 /\ robot_construction.ore > 0

\* prune without the test of the last turns.
prune_without_last_turns(time_remaining, robot_total, robot_construction) ==
    \/ time_remaining <= 4 /\ robot_construction.obsidian > 0
    \/ time_remaining <= 7 /\ robot_construction.clay > 0
    \/ time_remaining <= 14 /\ robot_construction.ore > 0

\* prune with the first test one minute early.
prune_at_three(time_remaining, robot_total, robot_construction) ==
    \/ time_remaining = 3 /\ robot_total.geode = 0 /\ robot_construction.geode = 0
    \/ time_remaining <= 4 /\ robot_construction.obsidian > 0
    \/ time_remaining <= 7 /\ robot_construction.clay > 0
    \/ time_remaining <= 14 /\ robot_construction.ore > 0

\* The four "prune" tests that follow the loop over the robots; each of them
\* is a return from the call.
prune(time_remaining, robot_total, robot_construction) ==
    \/ time_remaining = 2 /\ robot_total.geode = 0 /\ robot_construction.geode = 0
    \/ time_remaining <= 4 /\ robot_construction.obsidian > 0
    \/ time_remaining <= 7 /\ robot_construction.clay > 0
    \/ time_remaining <= 14 /\ robot_construction.ore > 0

\* "Collect resources": every owned robot yields one unit.
collect_resources(resource_total, robot_total) ==
    NewBag(resource_total.ore + robot_total.ore,
           resource_total.clay + robot_total.clay,
           resource_total.obsidian + robot_total.obsidian,
           resource_total.geode + robot_total.geode)

\* finish_construction that loses the robots queued.
finish_construction_lost(robot_total, robot_construction) == robot_total

\* "Check for robot construction": the robots queued this minute are owned
\* from the next one.
finish_construction(robot_total, robot_construction) ==
    NewBag(robot_total.ore + robot_construction.ore,
           robot_total.clay + robot_construction.clay,
           robot_total.obsidian + robot_construction.obsidian,
           robot_total.geode + robot_construction.geode)

\* The elements of a sequence.
Range(seq) == {seq[i] : i \in DOMAIN seq}

\* The greatest element of a non-empty set of numbers (Iterator::max).
Max(S) == CHOOSE m \in S : \A x \in S : x <= m

Min(S) == CHOOSE m \in S : \A x \in S : m <= x

\* ------------------------------------------------------------------------
\* day19.rs: the search as a machine.
\* ------------------------------------------------------------------------
VARIABLES
    blueprint,                  \* the &Blueprint of the running simulation
    time_allowed,               \* simulate_blueprint's time_allowed
    geode_totals,               \* the HashSet<u64> shared by all calls
    earliest_geode_robot_time,  \* the u64 shared by all calls
    stack,                      \* active calls, the innermost one last
    phase,                      \* "idle", "search", "done" or "panic"
    quality,                    \* what simulate_blueprint returned
    results                     \* results[t + 1]: the maximum found for time_allowed = t

vars19 == <<blueprint, time_allowed, geode_totals, earliest_geode_robot_time,
            stack, phase, quality, results>>

\* A call of simulate_blueprint_recursive with its parameters, at its entry.
Call(resource_total, robot_total, robot_construction, time_remaining, skip_build) ==
    [resource_total     |-> resource_total,
     robot_total        |-> robot_total,
     robot_construction |-> robot_construction,
     time_remaining     |-> time_remaining,
     skip_build         |-> skip_build,
     pc                 |-> "entry",
     build_options      |-> << >>,
     next_option        |-> 1]

Top == stack[Len(stack)]
Pop == SubSeq(stack, 1, Len(stack) - 1)
\* The caller moves on to state top, the callee starts.
PushCall(top, call) == Append([stack EXCEPT ![Len(stack)] = top], call)

Init19 ==
    /\ blueprint \in Blueprints
    /\ time_allowed = 0
    /\ geode_totals = {}
    /\ earliest_geode_robot_time = 0
    /\ stack = << >>
    /\ phase = "idle"
    /\ quality = 0
    /\ results = << >>

\* Mutant of the seeding: the set is handed to the search empty.
seed_totals_empty == {}

\* geode_totals after HashSet::new() and insert(0).
seed_totals == {0}

\* simulate_blueprint up to its call of simulate_blueprint_recursive.
SimulateBlueprint ==
    /\ phase = "idle"
    /\ geode_totals' = seed_totals
    /\ earliest_geode_robot_time' = 0
    /\ stack' = << Call(blank, NewBag(1, 0, 0, 0), blank, time_allowed, FALSE) >>
    /\ phase' = "search"
    /\ UNCHANGED <<blueprint, time_allowed, quality, results>>

\* The terminal test missing the value 0.
is_terminal_below_zero(time_remaining) == time_remaining < 0

\* if time_remaining <= 0
is_terminal(time_remaining) == time_remaining <= 0

\* Mutant of the recorded value: the robots are counted, not the geodes.
recorded_total_robots(call) == call.robot_total.geode

\* The value the terminal case inserts into geode_totals.
recorded_total(call) == call.resource_total.geode

\* The terminal case: record the geodes held and return.
RecordTotal ==
    /\ phase = "search" /\ stack # << >>
    /\ Top.pc = "entry"
    /\ is_terminal(Top.time_remaining)
    /\ geode_totals' = geode_totals \cup {recorded_total(Top)}
    /\ stack' = Pop
    /\ UNCHANGED <<blueprint, time_allowed, earliest_geode_robot_time, phase,
                   quality, results>>

\* The decision guard without skip_build.
tries_to_build_ignoring_skip(call) == call.time_remaining > 1

\* if !skip_build && time_remaining > 1
tries_to_build(call) == ~call.skip_build /\ call.time_remaining > 1

\* "Try to build robots": the affordable options are listed.
ListBuildOptions ==
    /\ phase = "search" /\ stack # << >>
    /\ Top.pc = "entry"
    /\ ~is_terminal(Top.time_remaining)
    /\ tries_to_build(Top)
    /\ stack' = [stack EXCEPT ![Len(stack)] =
                    [Top EXCEPT !.pc = "options",
                                !.build_options = build_options(blueprint, Top.resource_total),
                                !.next_option = 1]]
    /\ UNCHANGED <<blueprint, time_allowed, geode_totals,
                   earliest_geode_robot_time, phase, quality, results>>

\* One iteration of "for build_option in build_options": the robots are
\* queued and paid, then the call returns (geode robot later than the
\* earliest known one, or a prune test) or recurses with skip_build = true.
BuildOption ==
    /\ phase = "search" /\ stack # << >>
    /\ Top.pc = "options"
    /\ Top.next_option <= Len(Top.build_options)
    /\ LET out == build_robots(blueprint, Top.build_options[Top.next_option],
                               Top.time_remaining,
                               [returned |-> FALSE,
                                earliest |-> earliest_geode_robot_time,
                                resource_total |-> Top.resource_total,
                                robot_construction |-> blank])
       IN /\ earliest_geode_robot_time' = out.earliest
          /\ \/ /\ out.returned
                /\ stack' = Pop
             \/ /\ ~out.returned
                /\ prune(Top.time_remaining, Top.robot_total, out.robot_construction)
                /\ stack' = Pop
             \/ /\ ~out.returned
                /\ ~prune(Top.time_remaining, Top.robot_total, out.robot_construction)
                /\ stack' = PushCall([Top EXCEPT !.next_option = @ + 1],
                                     Call(out.resource_total, Top.robot_total,
                                          out.robot_construction,
                                          Top.time_remaining, TRUE))
    /\ UNCHANGED <<blueprint, time_allowed, geode_totals, phase, quality, results>>

\* "Collect resources", "Check for robot construction", "Go to the next
\* step": reached when the decision is skipped or its loop has ended.
Advance ==
    /\ phase = "search" /\ stack # << >>
    /\ \/ /\ Top.pc = "entry"
          /\ ~is_terminal(Top.time_remaining)
          /\ ~tries_to_build(Top)
       \/ /\ Top.pc = "options"
          /\ Top.next_option > Len(Top.build_options)
    /\ stack' = PushCall([Top EXCEPT !.pc = "return"],
                         Call(collect_resources(Top.resource_total, Top.robot_total),
                              finish_construction(Top.robot_total, Top.robot_construction),
                              blank, Top.time_remaining - 1, FALSE))
    /\ UNCHANGED <<blueprint, time_allowed, geode_totals,
                   earliest_geode_robot_time, phase, quality, results>>

\* The end of the body: the call returns to its caller.
Return ==
    /\ phase = "search" /\ stack # << >>
    /\ Top.pc = "return"
    /\ stack' = Pop
    /\ UNCHANGED <<blueprint, time_allowed, geode_totals,
                   earliest_geode_robot_time, phase, quality, results>>

\* geode_totals.iter().max().unwrap() * blueprint.id
quality_level(totals, id) == Max(totals) * id

\* simulate_blueprint after the search: unwrap panics on an empty set.
Finish ==
    /\ phase = "search" /\ stack = << >>
    /\ IF geode_totals = {}
       THEN /\ phase' = "panic"
            /\ UNCHANGED <<quality, results>>
       ELSE /\ phase' = "done"
            /\ quality' = quality_level(geode_totals, blueprint.id)
            /\ results' = Append(results, Max(geode_totals))
    /\ UNCHANGED <<blueprint, time_allowed, geode_totals,
                   earliest_geode_robot_time, stack>>

\* The caller simulates the same blueprint again, one minute longer.
NextHorizon ==
    /\ phase = "done"
    /\ time_allowed < MaxTime
    /\ time_allowed' = time_allowed + 1
    /\ phase' = "idle"
    /\ UNCHANGED <<blueprint, geode_totals, earliest_geode_robot_time, stack,
                   quality, results>>


\* ------------------------------------------------------------------------
\* day19.rs: solve_part1 on the example blueprints, explored depth by depth.
\*
\* With PART1_MINUTES_ALLOWED = 24 one search makes tens of millions of
\* calls, most of them repeats of a call with the same parameters.  What a
\* call does depends on its parameters and, only where a build option with a
\* geode robot is processed, on earliest_geode_robot_time.  So as long as no
\* processed option holds a geode robot, the counter is never read or
\* written, the calls made by a call are a function of its parameters, and
\* the search makes exactly the calls reachable from the first one.  This
\* machine keeps the set of distinct calls at one recursion depth and
\* replaces it by the set of calls they make; where an option with a geode
\* robot is processed it stops in phase "order_dependent" and states no
\* result.
\* ------------------------------------------------------------------------

\* const PART1_MINUTES_ALLOWED
PART1_MINUTES_ALLOWED == 24

\* The two blueprints of the example input (ids 1 and 2).
ExampleBlueprint1 == NewBlueprint(1, 4, 2, 3, 14, 2, 7)
ExampleBlueprint2 == NewBlueprint(2, 2, 3, 3, 8, 3, 12)

\* The input files modelled: the example blueprints, in any order, or one
\* of them alone.
ExampleInputs ==
    { <<ExampleBlueprint1, ExampleBlueprint2>>,
      <<ExampleBlueprint2, ExampleBlueprint1>>,
      <<ExampleBlueprint1>>, <<ExampleBlueprint2>> }

\* "for build_option in build_options" of one call, from option i on, with
\* the counter at its initial 0: the calls made (callees), whether the loop
\* was left by a return, and whether an option with a geode robot was
\* processed (then the counter was read and written).
RECURSIVE explore_options(_, _, _, _, _)
explore_options(bp, call, options, i, acc) ==
    IF i > Len(options) THEN acc
    ELSE LET out == build_robots(bp, options[i], call.time_remaining,
                                 [returned |-> FALSE, earliest |-> 0,
                                  resource_total |-> call.resource_total,
                                  robot_construction |-> blank])
             touched == acc.touched \/ "GeodeRobot" \in Range(options[i])
         IN IF out.returned
                \/ prune(call.time_remaining, call.robot_total, out.robot_construction)
            THEN [acc EXCEPT !.returned = TRUE, !.touched = touched]
            ELSE explore_options(bp, call, options, i + 1,
                     [callees |-> Append(acc.callees,
                                         Call(out.resource_total, call.robot_total,
                                              out.robot_construction,
                                              call.time_remaining, TRUE)),
                      returned |-> FALSE,
                      touched |-> touched])

\* The body of simulate_blueprint_recursive for one call, the counter at 0:
\* the totals it records, the calls it makes, and whether it processed an
\* option with a geode robot.
calls_made(bp, call) ==
    IF is_terminal(call.time_remaining)
    THEN [recorded |-> {recorded_total(call)}, callees |-> <<>>, touched |-> FALSE]
    ELSE LET decision ==
                 IF tries_to_build(call)
                 THEN explore_options(bp, call,
                                      build_options(bp, call.resource_total), 1,
                                      [callees |-> <<>>, returned |-> FALSE,
                                       touched |-> FALSE])
                 ELSE [callees |-> <<>>, returned |-> FALSE, touched |-> FALSE]
             next_step ==
                 Call(collect_resources(call.resource_total, call.robot_total),
                      finish_construction(call.robot_total, call.robot_construction),
                      blank, call.time_remaining - 1, FALSE)
         IN [recorded |-> {},
             callees |-> decision.callees \o
                            (IF decision.returned THEN <<>> ELSE <<next_step>>),
             touched |-> decision.touched]

\* Every (body, i) such that the body makes an i-th call: at most one call
\* per build option of ROBOT_COMBOS and of the empty option, and the call
\* that advances the turn.
callee_positions(made) ==
    {at \in made \X (1 .. Len(ROBOT_COMBOS) + 2) : at[2] <= Len(at[1].callees)}

VARIABLES
    p1_blueprints,    \* solve_part1's blueprints
    p1_next,          \* index of the blueprint the for loop is at
    p1_total,         \* solve_part1's total
    p1_phase,         \* "loop", "search", "order_dependent" or "returned"
    p1_calls,         \* the distinct calls at the current recursion depth
    p1_geode_totals,  \* geode_totals of the running simulate_blueprint
    p1_quality        \* what the last simulate_blueprint returned

varsP1 == <<p1_blueprints, p1_next, p1_total, p1_phase, p1_calls,
            p1_geode_totals, p1_quality>>

InitP1 ==
    /\ p1_blueprints \in ExampleInputs
    /\ p1_next = 1
    /\ p1_total = 0
    /\ p1_phase = "loop"
    /\ p1_calls = {}
    /\ p1_geode_totals = {}
    /\ p1_quality = 0

\* for bp in blueprints: simulate_blueprint(bp, PART1_MINUTES_ALLOWED) up to
\* its call of simulate_blueprint_recursive.
P1Simulate ==
    /\ p1_phase = "loop"
    /\ p1_next <= Len(p1_blueprints)
    /\ p1_phase' = "search"
    /\ p1_geode_totals' = seed_totals
    /\ p1_calls' = {Call(blank, NewBag(1, 0, 0, 0), blank,
                         PART1_MINUTES_ALLOWED, FALSE)}
    /\ UNCHANGED <<p1_blueprints, p1_next, p1_total, p1_quality>>

\* Every call of the current depth runs its body (made: what the bodies did).
P1ExploreDepth ==
    /\ p1_phase = "search"
    /\ p1_calls # {}
    /\ \E made \in {{calls_made(p1_blueprints[p1_next], call) : call \in p1_calls}} :
          IF \E m \in made : m.touched
          THEN /\ p1_phase' = "order_dependent"
               /\ UNCHANGED <<p1_calls, p1_geode_totals>>
          ELSE /\ p1_phase' = "search"
               /\ p1_calls' = {at[1].callees[at[2]] : at \in callee_positions(made)}
               /\ p1_geode_totals' =
                      p1_geode_totals \cup UNION {m.recorded : m \in made}
    /\ UNCHANGED <<p1_blueprints, p1_next, p1_total, p1_quality>>

\* simulate_blueprint returns; total += its value.
P1Return ==
    /\ p1_phase = "search"
    /\ p1_calls = {}
    /\ p1_quality' = quality_level(p1_geode_totals, p1_blueprints[p1_next].id)
    /\ p1_total' = p1_total + quality_level(p1_geode_totals, p1_blueprints[p1_next].id)
    /\ p1_phase' = "returned"
    /\ UNCHANGED <<p1_blueprints, p1_next, p1_calls, p1_geode_totals>>

\* The for loop moves to the next blueprint.
P1NextBlueprint ==
    /\ p1_phase = "returned"
    /\ p1_next <= Len(p1_blueprints)
    /\ p1_next' = p1_next + 1
    /\ p1_phase' = "loop"
    /\ UNCHANGED <<p1_blueprints, p1_total, p1_calls, p1_geode_totals, p1_quality>>

\* ------------------------------------------------------------------------
\* day06.rs: find_marker_index, one iteration of "for cursor" per step.
\* ------------------------------------------------------------------------
\* The characters of the inputs.
Alphabet == {"a", "b", "c", "d"}

\* The longest input and the longest marker.
MaxChars == 5
MaxMarkerLen == 4

\* usize arithmetic: the model's width, wide enough that a wrapped value
\* exceeds every index of the inputs, as 2^64 does.
UsizeBits == 16
UsizeModulus == 2 ^ UsizeBits
wrapping_sub(a, b) == (a - b + UsizeModulus) % UsizeModulus
wrapping_add(a, b) == (a + b) % UsizeModulus

VARIABLES
    chars,            \* find_marker_index's chars
    marker_len,       \* find_marker_index's marker_len
    overflow_checks,  \* the build panics on arithmetic overflow (debug) or wraps
    cursor,           \* the for loop's cursor
    cursor_end,       \* the end of the range the for loop runs over
    marker_phase,     \* "call", "loop", "some", "none", "panic_overflow", "panic_index"
    marker_index      \* the k of the returned Some(k)

vars06 == <<chars, marker_len, overflow_checks, cursor, cursor_end,
            marker_phase, marker_index>>

Init06 ==
    /\ chars \in UNION {[1 .. n -> Alphabet] : n \in 0 .. MaxChars}
    /\ marker_len \in 1 .. MaxMarkerLen
    /\ overflow_checks \in BOOLEAN
    /\ cursor = 0
    /\ cursor_end = 0
    /\ marker_phase = "call"
    /\ marker_index = 0

\* The range end without the "+ 1": the last window is never looked at.
cursor_range_end_short(len, len_marker) == wrapping_sub(len, len_marker)

\* chars.len() - marker_len + 1, wrapping.
cursor_range_end(len, len_marker) == wrapping_add(wrapping_sub(len, len_marker), 1)

\* "for cursor in 0..(chars.len() - marker_len + 1)": the range is computed
\* once; the subtraction panics in a build with overflow checks when it
\* would go below 0.
EnterLoop ==
    /\ marker_phase = "call"
    /\ IF overflow_checks /\ Len(chars) < marker_len
       THEN /\ marker_phase' = "panic_overflow"
            /\ UNCHANGED cursor_end
       ELSE /\ marker_phase' = "loop"
            /\ cursor_end' = cursor_range_end(Len(chars), marker_len)
    /\ UNCHANGED <<chars, marker_len, overflow_checks, cursor, marker_index>>

\* "for i in 0..marker_len" from i on: the window_set it leaves, and whether
\* chars[cursor + i] was out of bounds (chars is indexed from 1 here).
RECURSIVE window_set(_, _, _, _, _)
window_set(cs, at, len_marker, i, seen) ==
    IF i >= len_marker THEN [set |-> seen, out_of_bounds |-> FALSE]
    ELSE IF at + i >= Len(cs) THEN [set |-> seen, out_of_bounds |-> TRUE]
    ELSE IF cs[at + i + 1] \in seen THEN [set |-> seen, out_of_bounds |-> FALSE]
    ELSE window_set(cs, at, len_marker, i + 1, seen \cup {cs[at + i + 1]})

\* One iteration of the for loop.
ScanWindow ==
    /\ marker_phase = "loop"
    /\ cursor < cursor_end
    /\ LET window == window_set(chars, cursor, marker_len, 0, {})
       IN IF window.out_of_bounds
          THEN /\ marker_phase' = "panic_index"
               /\ UNCHANGED <<cursor, marker_index>>
          ELSE IF Cardinality(window.set) = marker_len
          THEN /\ marker_phase' = "some"
               /\ marker_index' = cursor + marker_len
               /\ UNCHANGED cursor
          ELSE /\ cursor' = cursor + 1
               /\ UNCHANGED <<marker_phase, marker_index>>
    /\ UNCHANGED <<chars, marker_len, overflow_checks, cursor_end>>

\* The range is exhausted: None.
ReturnNone ==
    /\ marker_phase = "loop"
    /\ cursor >= cursor_end
    /\ marker_phase' = "none"
    /\ UNCHANGED <<chars, marker_len, overflow_checks, cursor, cursor_end,
                   marker_index>>

\* ------------------------------------------------------------------------
\* utils/cartography/point2d.rs: Point2D.
\* ------------------------------------------------------------------------
\* The coordinates of the points are within -MaxCoord .. MaxCoord.
MaxCoord == 2

Abs(n) == IF n < 0 THEN -n ELSE n

\* Point2D::new
NewPoint(x, y) == [x |-> x, y |-> y]

Points == {NewPoint(x, y) : x \in -MaxCoord .. MaxCoord, y \in -MaxCoord .. MaxCoord}

\* Point2D::is_adjacent
is_adjacent(self, other) ==
    Abs(self.x - other.x) > 1 \/ Abs(self.y - other.y) > 1

\* Point2D::get_surrounding_points
get_surrounding_points(self) ==
    << NewPoint(self.x, self.y - 1),
       NewPoint(self.x + 1, self.y - 1),
       NewPoint(self.x + 1, self.y),
       NewPoint(self.x + 1, self.y + 1),
       NewPoint(self.x, self.y + 1),
       NewPoint(self.x - 1, self.y + 1),
       NewPoint(self.x - 1, self.y),
       NewPoint(self.x - 1, self.y - 1) >>

VARIABLES
    point,            \* the receiver
    other_point,      \* is_adjacent's other
    point_phase,      \* "new", "is_adjacent" or "surrounding"
    adjacent,         \* what is_adjacent returned
    surrounding       \* what get_surrounding_points returned

varsPt == <<point, other_point, point_phase, adjacent, surrounding>>

InitPt ==
    /\ point \in Points
    /\ other_point \in Points
    /\ point_phase = "new"
    /\ adjacent = FALSE
    /\ surrounding = << >>

IsAdjacent ==
    /\ point_phase = "new"
    /\ adjacent' = is_adjacent(point, other_point)
    /\ point_phase' = "is_adjacent"
    /\ UNCHANGED <<point, other_point, surrounding>>

GetSurroundingPoints ==
    /\ point_phase = "new"
    /\ surrounding' = get_surrounding_points(point)
    /\ point_phase' = "surrounding"
    /\ UNCHANGED <<point, other_point, adjacent>>

\* ------------------------------------------------------------------------
\* day12.rs: get_min_steps_to_end, one iteration of its while loop per step.
\* ------------------------------------------------------------------------
\* The heights of the heightmaps are within 0 .. MaxElevation.
MaxElevation == 2

\* The locations of the heightmaps: a grid of three columns and two rows.
GridPoints == {NewPoint(x, y) : x \in 0 .. 2, y \in 0 .. 1}

\* The directions get_next_valid_points checks, in its order.
DELTAS == << <<1, 0>>, <<-1, 0>>, <<0, 1>>, <<0, -1>> >>

\* Point2D::peek_move_point: the point moved by the deltas, the point itself
\* left as it is.
peek_move_point(self, delta_x, delta_y) ==
    NewPoint(self.x + delta_x, self.y + delta_y)

\* get_next_valid_points with the elevation check the wrong way round.
get_next_valid_points_swapped(hm, loc, reverse_course) ==
    LET check_locs == [d \in 1 .. Len(DELTAS) |->
                          peek_move_point(loc, DELTAS[d][1], DELTAS[d][2])]
        valid(check_loc) ==
            LET left == IF reverse_course THEN loc ELSE check_loc
                right == IF reverse_course THEN check_loc ELSE loc
            IN /\ check_loc \in DOMAIN hm
               /\ hm[right] - hm[left] <= 1
    IN SelectSeq(check_locs, valid)

get_next_valid_points(hm, loc, reverse_course) ==
    LET check_locs == [d \in 1 .. Len(DELTAS) |->
                          peek_move_point(loc, DELTAS[d][1], DELTAS[d][2])]
        valid(check_loc) ==
            LET left == IF reverse_course THEN check_loc ELSE loc
                right == IF reverse_course THEN loc ELSE check_loc
            IN /\ check_loc \in DOMAIN hm
               /\ hm[right] - hm[left] <= 1
    IN SelectSeq(check_locs, valid)

VARIABLES
    heightmap,        \* get_min_steps_to_end's heightmap
    start,            \* its start
    end,              \* its end
    visit_queue,      \* the VecDeque of (steps, point)
    visited,          \* the HashSet of points
    steps_phase,      \* "call", "loop", "returned" or "panic"
    min_steps         \* what get_min_steps_to_end returned

vars12 == <<heightmap, start, end, visit_queue, visited, steps_phase, min_steps>>

Init12 ==
    /\ heightmap \in [GridPoints -> 0 .. MaxElevation]
    /\ start \in GridPoints
    /\ end \in GridPoints
    /\ visit_queue = << >>
    /\ visited = {}
    /\ steps_phase = "call"
    /\ min_steps = 0

\* The statements before the while loop.
GetMinStepsToEnd ==
    /\ steps_phase = "call"
    /\ visit_queue' = << <<0, start>> >>
    /\ visited' = {start}
    /\ steps_phase' = "loop"
    /\ UNCHANGED <<heightmap, start, end, min_steps>>

\* "for valid_point in get_next_valid_points(..)" from point i on.
RECURSIVE push_unvisited(_, _, _, _)
push_unvisited(valid_points, i, steps, st) ==
    IF i > Len(valid_points) THEN st
    ELSE IF valid_points[i] \notin st.visited
    THEN push_unvisited(valid_points, i + 1, steps,
             [visit_queue |-> Append(st.visit_queue, <<steps + 1, valid_points[i]>>),
              visited |-> st.visited \cup {valid_points[i]}])
    ELSE push_unvisited(valid_points, i + 1, steps, st)

\* One iteration of the while loop.
VisitNext ==
    /\ steps_phase = "loop"
    /\ visit_queue # << >>
    /\ LET steps == Head(visit_queue)[1]
           current_loc == Head(visit_queue)[2]
           st == push_unvisited(get_next_valid_points(heightmap, current_loc, FALSE),
                                1, steps,
                                [visit_queue |-> Tail(visit_queue),
                                 visited |-> visited])
       IN IF current_loc = end
          THEN /\ min_steps' = steps
               /\ steps_phase' = "returned"
               /\ visit_queue' = Tail(visit_queue)
               /\ UNCHANGED visited
          ELSE /\ visit_queue' = st.visit_queue
               /\ visited' = st.visited
               /\ UNCHANGED <<steps_phase, min_steps>>
    /\ UNCHANGED <<heightmap, start, end>>

\* The queue ran empty: the panic after the loop.
DidNotReachEnd ==
    /\ steps_phase = "loop"
    /\ visit_queue = << >>
    /\ steps_phase' = "panic"
    /\ UNCHANGED <<heightmap, start, end, visit_queue, visited, min_steps>>

\* ------------------------------------------------------------------------
\* day21.rs: monkey operations, their expression text, and its evaluation.
\*
\* A String is a sequence of one-character strings.
\* ------------------------------------------------------------------------

Digits == <<"0", "1", "2", "3", "4", "5", "6", "7", "8", "9">>

is_digit(c) == \E d \in DOMAIN Digits : Digits[d] = c

digit_value(c) == (CHOOSE d \in DOMAIN Digits : Digits[d] = c) - 1

\* The decimal digits of n >= 0, most significant first.
RECURSIVE digits_of(_)
digits_of(n) ==
    IF n < 10 THEN <<Digits[n + 1]>>
    ELSE Append(digits_of(n \div 10), Digits[(n % 10) + 1])

\* i64::to_string
to_string(n) == IF n < 0 THEN <<"-">> \o digits_of(-n) ELSE digits_of(n)

RECURSIVE digits_value(_, _)
digits_value(text, acc) ==
    IF text = << >> THEN acc
    ELSE digits_value(Tail(text), acc * 10 + digit_value(Head(text)))

\* str::parse::<i64>: an optional sign and one or more digits; anything
\* else is an Err.
parse_i64(text) ==
    LET signed == text # << >> /\ Head(text) \in {"+", "-"}
        body == IF signed THEN Tail(text) ELSE text
        ok == body # << >> /\ \A i \in DOMAIN body : is_digit(body[i])
    IN [ok |-> ok,
        value |-> IF ~ok THEN 0
                  ELSE IF signed /\ Head(text) = "-" THEN -digits_value(body, 0)
                  ELSE digits_value(body, 0)]

\* i64 division: the quotient is truncated toward zero (right # 0).
truncating_div(left, right) ==
    LET quotient == Abs(left) \div Abs(right)
    IN IF (left < 0) = (right < 0) THEN quotient ELSE -quotient

\* Division that rounds toward minus infinity.
flooring_apply(operator, left, right) ==
    CASE operator = "+" -> left + right
      [] operator = "-" -> left - right
      [] operator = "*" -> left * right
      [] operator = "/" ->
             LET quotient == Abs(left) \div Abs(right)
             IN IF (left < 0) = (right < 0) THEN quotient
                ELSE IF Abs(left) % Abs(right) = 0 THEN -quotient
                ELSE -quotient - 1

\* The arithmetic of the match in evaluate_rpn_expression (right # 0 for "/").
apply_operator(operator, left, right) ==
    CASE operator = "+" -> left + right
      [] operator = "-" -> left - right
      [] operator = "*" -> left * right
      [] operator = "/" -> truncating_div(left, right)

\* enum Operation
Nop(value) == [op |-> "Nop", value |-> value]
Variable(var) == [op |-> "Variable", var |-> var]
Binary(op, left, right) == [op |-> op, left |-> left, right |-> right]

\* The operator character format! writes for an operation.
operator_of(op) ==
    CASE op = "Add" -> "+"
      [] op = "Subtract" -> "-"
      [] op = "Multiply" -> "*"
      [] op = "Divide" -> "/"
      [] op = "Equal" -> "="

\* The name "humn" as text.
HUMN == <<"h", "u", "m", "n">>

\* generate_monkey_expression: "(left op right)" for the four arithmetic
\* operations, "left = right" for Equal.
RECURSIVE generate_monkey_expression(_, _)
generate_monkey_expression(name, monkey_ops) ==
    LET operation == monkey_ops[name]
    IN CASE operation.op = "Nop" -> to_string(operation.value)
         [] operation.op = "Variable" -> HUMN
         [] operation.op = "Equal" ->
                generate_monkey_expression(operation.left, monkey_ops)
                  \o <<" ", "=", " ">>
                  \o generate_monkey_expression(operation.right, monkey_ops)
         [] OTHER ->
                <<"(">>
                  \o generate_monkey_expression(operation.left, monkey_ops)
                  \o <<" ", operator_of(operation.op), " ">>
                  \o generate_monkey_expression(operation.right, monkey_ops)
                  \o <<")">>

\* Outcomes of a function that returns an i64 or panics.
Value(value) == [panic |-> FALSE, value |-> value]
Panic == [panic |-> TRUE, value |-> 0]

\* determine_monkey_yell_value(name, monkey_ops).unwrap(): the value of the
\* operation tree; a Variable, a division by zero and the unwrap of the
\* None of an Equal whose sides differ panic.
RECURSIVE determine_monkey_yell_value(_, _)
determine_monkey_yell_value(name, monkey_ops) ==
    LET operation == monkey_ops[name]
    IN CASE operation.op = "Nop" -> Value(operation.value)
         [] operation.op = "Variable" -> Panic
         [] OTHER ->
                LET left == determine_monkey_yell_value(operation.left, monkey_ops)
                    right == determine_monkey_yell_value(operation.right, monkey_ops)
                IN IF left.panic \/ right.panic THEN Panic
                   ELSE IF operation.op = "Equal"
                   THEN IF left.value = right.value THEN left ELSE Panic
                   ELSE IF operation.op = "Divide" /\ right.value = 0 THEN Panic
                   ELSE Value(CASE operation.op = "Add" -> left.value + right.value
                                [] operation.op = "Subtract" -> left.value - right.value
                                [] operation.op = "Multiply" -> left.value * right.value
                                [] operation.op = "Divide" ->
                                       truncating_div(left.value, right.value))

\* The characters REGEX_TOKEN matches one at a time; digits match in runs.
token_chars ==
    {"(", ")", "+", "-", "*", "/"} \cup
    {"a", "b", "c", "d", "e", "f", "g", "h", "i", "j", "k", "l", "m",
     "n", "o", "p", "q", "r", "s", "t", "u", "v", "w", "x", "y", "z"}

\* The length of the run of digits text starts with.
RECURSIVE digit_run(_)
digit_run(text) ==
    IF text = << >> \/ ~is_digit(Head(text)) THEN 0
    ELSE 1 + digit_run(Tail(text))

\* REGEX_TOKEN.find_iter(text): the matches from left to right; characters
\* no alternative matches are skipped.
RECURSIVE find_iter(_)
find_iter(text) ==
    IF text = << >> THEN << >>
    ELSE IF is_digit(Head(text))
    THEN <<SubSeq(text, 1, digit_run(text))>>
            \o find_iter(SubSeq(text, digit_run(text) + 1, Len(text)))
    ELSE IF Head(text) \in token_chars
    THEN << <<Head(text)>> >> \o find_iter(Tail(text))
    ELSE find_iter(Tail(text))

\* get_precedence: 3 for "*" and "/", 2 for "+" and "-", a panic otherwise.
get_precedence(token) ==
    CASE token \in {<<"*">>, <<"/">>} -> Value(3)
      [] token \in {<<"+">>, <<"-">>} -> Value(2)
      [] OTHER -> Panic

\* The ")" arm of convert_to_rpn: operators are popped to the output down to
\* the "(" on top of which they were pushed; back().unwrap() panics on an
\* empty stack.
RECURSIVE pop_to_parenthesis(_)
pop_to_parenthesis(st) ==
    IF st.op_stack = << >> THEN [st EXCEPT !.panic = TRUE]
    ELSE LET back == st.op_stack[Len(st.op_stack)]
             rest == SubSeq(st.op_stack, 1, Len(st.op_stack) - 1)
         IN IF back = <<"(">> THEN [st EXCEPT !.op_stack = rest]
            ELSE pop_to_parenthesis([st EXCEPT !.op_stack = rest,
                                               !.output = Append(@, back)])

\* The last arm of convert_to_rpn: operators of higher precedence than token
\* are popped to the output, then token is pushed.
RECURSIVE push_operator(_, _)
push_operator(st, token) ==
    IF st.op_stack = << >> \/ st.op_stack[Len(st.op_stack)] = <<"(">>
    THEN [st EXCEPT !.op_stack = Append(@, token)]
    ELSE LET back == st.op_stack[Len(st.op_stack)]
             rest == SubSeq(st.op_stack, 1, Len(st.op_stack) - 1)
         IN IF get_precedence(back).panic \/ get_precedence(token).panic
            THEN [st EXCEPT !.panic = TRUE]
            ELSE IF get_precedence(back).value > get_precedence(token).value
            THEN push_operator([st EXCEPT !.op_stack = rest,
                                          !.output = Append(@, back)], token)
            ELSE [st EXCEPT !.op_stack = Append(@, token)]

\* One iteration of the loop of convert_to_rpn over the tokens.
rpn_token(st, token) ==
    IF st.panic THEN st
    ELSE IF parse_i64(token).ok THEN [st EXCEPT !.output = Append(@, token)]
    ELSE IF token = <<"(">> THEN [st EXCEPT !.op_stack = Append(@, token)]
    ELSE IF token = <<")">> THEN pop_to_parenthesis(st)
    ELSE push_operator(st, token)

RECURSIVE rpn_tokens(_, _)
rpn_tokens(st, tokens) ==
    IF tokens = << >> THEN st
    ELSE rpn_tokens(rpn_token(st, Head(tokens)), Tail(tokens))

\* The reverse of a sequence.
reversed(seq) == [i \in 1 .. Len(seq) |-> seq[Len(seq) + 1 - i]]

\* convert_to_rpn(expr): spaces are removed, the tokens are run through the
\* operator stack, and what is left on the stack is popped to the output.
convert_to_rpn(expr) ==
    LET st == rpn_tokens([op_stack |-> << >>, output |-> << >>, panic |-> FALSE],
                         find_iter(SelectSeq(expr, LAMBDA c : c # " ")))
    IN [panic |-> st.panic, rpn |-> st.output \o reversed(st.op_stack)]

\* evaluate_rpn_expression: numbers are pushed as text; an operator pops
\* right, then left, and pushes the text of the result; unwrap on an empty
\* stack, an unknown operator and a division by zero panic.
RECURSIVE evaluate_rpn(_, _)
evaluate_rpn(stack_text, rpn) ==
    IF rpn = << >>
    THEN IF stack_text = << >> THEN Panic
         ELSE Value(parse_i64(stack_text[Len(stack_text)]).value)
    ELSE IF parse_i64(Head(rpn)).ok
    THEN evaluate_rpn(Append(stack_text, Head(rpn)), Tail(rpn))
    ELSE IF Len(stack_text) < 2 \/ Head(rpn) \notin {<<"+">>, <<"-">>, <<"*">>, <<"/">>}
    THEN Panic
    ELSE LET right == parse_i64(stack_text[Len(stack_text)]).value
             left == parse_i64(stack_text[Len(stack_text) - 1]).value
         IN IF Head(rpn) = <<"/">> /\ right = 0 THEN Panic
            ELSE evaluate_rpn(
                     Append(SubSeq(stack_text, 1, Len(stack_text) - 2),
                            to_string(apply_operator(Head(rpn)[1], left, right))),
                     Tail(rpn))

evaluate_rpn_expression(rpn) == evaluate_rpn(<< >>, rpn)

\* evaluate_expression(expr)
evaluate_expression(expr) ==
    LET converted == convert_to_rpn(expr)
    IN IF converted.panic THEN Panic ELSE evaluate_rpn_expression(converted.rpn)

\* text starts with pattern at position at.
matches_at(text, at, pattern) ==
    /\ at + Len(pattern) - 1 <= Len(text)
    /\ \A i \in DOMAIN pattern : text[at + i - 1] = pattern[i]

\* str::contains
contains(text, pattern) == \E at \in DOMAIN text : matches_at(text, at, pattern)

\* str::replace(pattern, with): every match, from left to right.
RECURSIVE replace(_, _, _)
replace(text, pattern, with) ==
    IF text = << >> THEN << >>
    ELSE IF matches_at(text, 1, pattern)
    THEN with \o replace(SubSeq(text, Len(pattern) + 1, Len(text)), pattern, with)
    ELSE <<Head(text)>> \o replace(Tail(text), pattern, with)

\* str::split(pattern), collected: the pieces between the matches.
RECURSIVE split(_, _, _)
split(text, pattern, piece) ==
    IF text = << >> THEN <<piece>>
    ELSE IF matches_at(text, 1, pattern)
    THEN <<piece>> \o split(SubSeq(text, Len(pattern) + 1, Len(text)), pattern, << >>)
    ELSE split(Tail(text), pattern, Append(piece, Head(text)))

\* calculate_result_for_humn_value
calculate_result_for_humn_value(humn_side_expr, humn_value) ==
    evaluate_expression(replace(humn_side_expr, HUMN, to_string(humn_value)))

\* The starting upper limit of the binary search of solve_part2
\* (10_000_000_000_000 in the source), scaled down.
MaxHumn == 12

\* The numbers of the input lines.
NopValues == {0, 3, 12}

\* The operations process_input_file can return for a monkey whose operands
\* are among children.
operations_over(children) ==
    {Nop(value) : value \in NopValues} \cup
    {Binary(op, left, right) :
        op \in {"Add", "Subtract", "Multiply", "Divide"},
        left \in children, right \in children}

\* The maps process_input_file can return for inputs of five monkeys, each
\* of them shouting a number or working on monkeys named after it.
MonkeyOps ==
    {[root |-> root_op, a |-> a_op, b |-> b_op, c |-> c_op, humn |-> Nop(5)] :
        root_op \in operations_over({"a", "b"}),
        a_op \in operations_over({"b", "c", "humn"}),
        b_op \in operations_over({"c", "humn"}),
        c_op \in {Nop(value) : value \in NopValues}}

VARIABLES
    monkey_ops,                 \* what process_input_file returned
    yell_phase,                 \* where the run of day 21 stands
    yell,                       \* the outcome of determine_monkey_yell_value
    expression,                 \* the text of generate_monkey_expression
    rpn,                        \* the outcome of convert_to_rpn
    evaluated,                  \* the outcome of evaluate_rpn_expression
    humn_side, target, testval0, testval1,
    lower, upper,               \* the limits of the binary search
    humn_found                  \* what solve_part2 returned

vars21 == <<monkey_ops, yell_phase, yell, expression, rpn, evaluated,
            humn_side, target, testval0, testval1, lower, upper, humn_found>>

Init21 ==
    /\ monkey_ops \in MonkeyOps
    /\ yell_phase = "input"
    /\ yell = Value(0)
    /\ expression = << >>
    /\ rpn = [panic |-> FALSE, rpn |-> << >>]
    /\ evaluated = Value(0)
    /\ humn_side = << >> /\ target = 0 /\ testval0 = 0 /\ testval1 = 0
    /\ lower = 0 /\ upper = 0 /\ humn_found = 0

\* solve_part1
SolvePart1 ==
    /\ yell_phase = "input"
    /\ yell' = determine_monkey_yell_value("root", monkey_ops)
    /\ yell_phase' = "part1"
    /\ UNCHANGED <<monkey_ops, expression, rpn, evaluated, humn_side, target,
                   testval0, testval1, lower, upper, humn_found>>

\* generate_monkey_expression("root", monkey_ops) on the same map.
GenerateMonkeyExpression ==
    /\ yell_phase = "part1"
    /\ expression' = generate_monkey_expression("root", monkey_ops)
    /\ yell_phase' = "expression"
    /\ UNCHANGED <<monkey_ops, yell, rpn, evaluated, humn_side, target,
                   testval0, testval1, lower, upper, humn_found>>

\* evaluate_expression, first half: convert_to_rpn
ConvertToRpn ==
    /\ yell_phase = "expression"
    /\ rpn' = convert_to_rpn(expression)
    /\ yell_phase' = "rpn"
    /\ UNCHANGED <<monkey_ops, yell, expression, evaluated, humn_side, target,
                   testval0, testval1, lower, upper, humn_found>>

\* evaluate_expression, second half: evaluate_rpn_expression
EvaluateRpnExpression ==
    /\ yell_phase = "rpn"
    /\ evaluated' = IF rpn.panic THEN Panic ELSE evaluate_rpn_expression(rpn.rpn)
    /\ yell_phase' = "evaluated"
    /\ UNCHANGED <<monkey_ops, yell, expression, rpn, humn_side, target,
                   testval0, testval1, lower, upper, humn_found>>

\* monkey_ops_mod of solve_part2: "root" compares its operands and "humn" is
\* the unknown.
monkey_ops_mod(ops) ==
    [ops EXCEPT !["root"] = Binary("Equal", @.left, @.right),
                !["humn"] = Variable(HUMN)]

\* sides.iter().find(..): the first side that holds (wanted) or does not
\* hold (~wanted) the name "humn"; found is false where unwrap panics.
find_side(sides, wanted) ==
    LET hits == {i \in DOMAIN sides : contains(sides[i], HUMN) = wanted}
    IN [found |-> hits # {},
        side |-> IF hits = {} THEN << >> ELSE sides[Min(hits)]]

\* solve_part2 up to its loop: the sides of the equation of "root", the
\* target, the limits and the two test values.
SolvePart2 ==
    /\ yell_phase = "input"
    /\ IF monkey_ops["root"].op = "Nop"
       THEN /\ yell_phase' = "panic"
            /\ UNCHANGED <<humn_side, target, testval0, testval1, lower, upper>>
       ELSE \E sides \in {split(generate_monkey_expression(
                                    "root", monkey_ops_mod(monkey_ops)),
                                <<" ", "=", " ">>, << >>)} :
            \E non_humn \in {find_side(sides, FALSE)} :
            \E with_humn \in {find_side(sides, TRUE)} :
              IF ~non_humn.found \/ ~with_humn.found
              THEN /\ yell_phase' = "panic"
                   /\ UNCHANGED <<humn_side, target, testval0, testval1,
                                  lower, upper>>
              ELSE \E goal \in {evaluate_expression(non_humn.side)} :
                   \E val0 \in {calculate_result_for_humn_value(with_humn.side, 0)} :
                   \E val1 \in {calculate_result_for_humn_value(
                                    with_humn.side, (MaxHumn - 1) \div 2)} :
                     IF goal.panic \/ val0.panic \/ val1.panic
                     THEN /\ yell_phase' = "panic"
                          /\ UNCHANGED <<humn_side, target, testval0, testval1,
                                         lower, upper>>
                     ELSE /\ yell_phase' = "loop"
                          /\ humn_side' = with_humn.side
                          /\ target' = goal.value
                          /\ lower' = 1
                          /\ upper' = MaxHumn
                          /\ testval0' = val0.value
                          /\ testval1' = val1.value
    /\ UNCHANGED <<monkey_ops, yell, expression, rpn, evaluated, humn_found>>

\* let humn_mid = lower + (upper - lower) / 2
humn_mid(low, high) == low + (high - low) \div 2

\* One iteration of the loop of solve_part2 on the limits low and high: the
\* humn side is evaluated at humn_mid and compared with the target; the
\* loop returns humn_mid, or humn_mid becomes one of the limits, the lower
\* one when the result is too small and the test values say the result
\* grows with humn (or too large and they do not).
search_step(side, goal, val0, val1, low, high) ==
    LET mid == humn_mid(low, high)
        result == calculate_result_for_humn_value(side, mid)
    IN IF result.panic
       THEN [outcome |-> "panic", lower |-> low, upper |-> high, humn |-> mid]
       ELSE IF result.value = goal
       THEN [outcome |-> "return", lower |-> low, upper |-> high, humn |-> mid]
       ELSE IF (result.value < goal) = (val0 < val1)
       THEN [outcome |-> "loop", lower |-> mid, upper |-> high, humn |-> mid]
       ELSE [outcome |-> "loop", lower |-> low, upper |-> mid, humn |-> mid]

\* The loop of solve_part2, one iteration at a time.
BinarySearch ==
    /\ yell_phase = "loop"
    /\ \E step \in {search_step(humn_side, target, testval0, testval1,
                                 lower, upper)} :
         /\ yell_phase' = CASE step.outcome = "panic" -> "panic"
                             [] step.outcome = "return" -> "found"
                             [] OTHER -> "loop"
         /\ humn_found' = IF step.outcome = "return" THEN step.humn
                          ELSE humn_found
         /\ lower' = step.lower
         /\ upper' = step.upper
    /\ UNCHANGED <<monkey_ops, yell, expression, rpn, evaluated, humn_side,
                   target, testval0, testval1>>

vars == <<vars19, varsP1, vars06, varsPt, vars12, vars21>>

\* ------------------------------------------------------------------------
\* day19.rs: properties of the search.
\* ------------------------------------------------------------------------

\* Component-wise a <= b on ResourceBags.
BagLeq(a, b) ==
    /\ a.ore <= b.ore
    /\ a.clay <= b.clay
    /\ a.obsidian <= b.obsidian
    /\ a.geode <= b.geode

\* The greatest geode total over every sequence of build decisions the search
\* may take (one option of build_options per minute while time_remaining > 1,
\* none in the last minute), with no branch cut.
RECURSIVE brute_force_max(_, _, _, _)
brute_force_max(bp, resource_total, robot_total, time_remaining) ==
    IF time_remaining = 0 THEN resource_total.geode
    ELSE LET options == IF time_remaining > 1
                        THEN build_options(bp, resource_total)
                        ELSE << <<>> >>
             built(o) == build_robots(bp, o, time_remaining,
                                      [returned |-> FALSE, earliest |-> 0,
                                       resource_total |-> resource_total,
                                       robot_construction |-> blank])
         IN Max({ brute_force_max(
                      bp,
                      collect_resources(built(options[i]).resource_total, robot_total),
                      finish_construction(robot_total, built(options[i]).robot_construction),
                      time_remaining - 1) : i \in DOMAIN options })

\* C3: pruning is sound: when simulate_blueprint returns (time_allowed <= 8),
\* the maximum it found equals the maximum of the search without pruning.
C3_PruningSound ==
    (phase = "done" /\ time_allowed <= 8) =>
        Max(geode_totals) =
            brute_force_max(blueprint, blank, NewBag(1, 0, 0, 0), time_allowed)

\* C4: monotonicity in the time horizon: for one blueprint and t1 <= t2 the
\* maximum found with time_allowed = t2 is not less than that with t1.
C4_MonotoneInTime ==
    \A t1 \in DOMAIN results : \A t2 \in DOMAIN results :
        t1 <= t2 => results[t1] <= results[t2]

\* C4 witness: both horizons simulated, the longer one found strictly more.
C4_Witness ==
    /\ Len(results) >= 5
    /\ results[4] > 0
    /\ results[5] > results[4]

\* C5: simulate_blueprint returns blueprint.id times the maximum of
\* geode_totals; a value enters geode_totals only as the seed 0 or as the
\* geode stock of a call entered with time_remaining = 0, and every such
\* call's geode stock does enter it.
C5_ResultSet ==
    [][ /\ (phase = "search" /\ phase' = "done") =>
               quality' = blueprint.id * Max(geode_totals)
        /\ (geode_totals' # geode_totals) =>
               \/ phase = "idle" /\ geode_totals' = {0}
               \/ /\ phase = "search" /\ stack # << >>
                  /\ Top.pc = "entry" /\ Top.time_remaining = 0
                  /\ geode_totals' = geode_totals \cup {Top.resource_total.geode}
        /\ (phase = "search" /\ stack # << >> /\ Top.pc = "entry"
                /\ Top.time_remaining = 0) =>
               Top.resource_total.geode \in geode_totals'
      ]_vars

\* C5 witness: a simulation has returned a quality that is the id (2) times
\* a maximum recorded by a path that reached time_remaining = 0.
C5_Witness ==
    /\ phase = "done"
    /\ blueprint.id = 2
    /\ Cardinality(geode_totals) >= 2
    /\ quality = 2 * Max(geode_totals)
    /\ quality > 0

\* C6 as stated: with the cost as the receiver and the stock as the argument,
\* fits_within is true iff every component of the cost is <= the stock's.
C6_CostReceiverFits ==
    (phase = "search" /\ stack # << >> /\ Top.pc = "options") =>
        \A i \in DOMAIN ROBOT_COMBOS :
            LET cost == resources_needed(blueprint, ROBOT_COMBOS[i])
            IN fits_within(cost, Top.resource_total)
                   <=> BagLeq(cost, Top.resource_total)

\* C6 amended: with the stock as the receiver and the cost as the argument
\* (the way simulate_blueprint_recursive calls it), fits_within is true iff
\* every component of the cost is <= the stock's: a combo is among the build
\* options iff its summed cost is within the stock, and the zero bag fits.
C6_StockReceiverFits ==
    (phase = "search" /\ stack # << >> /\ Top.pc = "options") =>
        /\ \A i \in DOMAIN ROBOT_COMBOS :
               LET cost == resources_needed(blueprint, ROBOT_COMBOS[i])
               IN /\ fits_within(Top.resource_total, cost)
                         <=> BagLeq(cost, Top.resource_total)
                  /\ ROBOT_COMBOS[i] \in Range(Top.build_options)
                         <=> BagLeq(cost, Top.resource_total)
        /\ fits_within(Top.resource_total, blank)

\* C6 witness: a decision with obsidian in stock where some combo is
\* affordable and another one is not.
C6_Witness ==
    /\ phase = "search" /\ stack # << >> /\ Top.pc = "options"
    /\ Top.resource_total.obsidian > 0
    /\ \E i \in DOMAIN ROBOT_COMBOS :
           BagLeq(resources_needed(blueprint, ROBOT_COMBOS[i]), Top.resource_total)
    /\ \E i \in DOMAIN ROBOT_COMBOS :
           ~BagLeq(resources_needed(blueprint, ROBOT_COMBOS[i]), Top.resource_total)

\* C7: geode_totals holds 0 from before the first call of the search until
\* simulate_blueprint has returned, so max().unwrap() never panics; with
\* time_allowed = 2 no call reaches time_remaining = 0 and 0 is returned.
C7_NeverEmpty ==
    /\ phase # "panic"
    /\ phase \in {"search", "done"} => 0 \in geode_totals
    /\ (phase = "done" /\ time_allowed = 2) =>
           geode_totals = {0} /\ quality = 0

\* C7 witness: simulate_blueprint has returned for time_allowed = 2, where
\* the search recorded nothing.
C7_Witness ==
    /\ phase = "done"
    /\ time_allowed = 2
    /\ geode_totals = {0}

\* C1: on example blueprint 1 with 24 minutes simulate_blueprint finds a
\* maximum of exactly 9 geodes and returns quality 9.
C1_Blueprint1Finds9 ==
    (p1_phase = "returned" /\ p1_blueprints[p1_next] = ExampleBlueprint1) =>
        /\ Max(p1_geode_totals) = 9
        /\ p1_quality = 9

\* C2: on example blueprint 2 with 24 minutes simulate_blueprint finds a
\* maximum of exactly 12 geodes (quality 24), and solve_part1 on blueprints
\* 1 and 2 returns 33.
C2_Blueprint2Finds12 ==
    /\ (p1_phase = "returned" /\ p1_blueprints[p1_next] = ExampleBlueprint2) =>
           /\ Max(p1_geode_totals) = 12
           /\ p1_quality = 24
    /\ (p1_phase = "loop" /\ p1_next > Len(p1_blueprints)
            /\ Len(p1_blueprints) = 2) =>
           p1_total = 33

\* The running call is about to process a build option of its loop.
AtBuildOption ==
    /\ phase = "search" /\ stack # << >>
    /\ Top.pc = "options"
    /\ Top.next_option <= Len(Top.build_options)

\* The build option the running call is about to process.
CurrentOption == Top.build_options[Top.next_option]

\* The step enters a new call of simulate_blueprint_recursive.
Recurses == Len(stack') = Len(stack) + 1

\* C11: abandoning a build option (by the geode-robot test or a prune test)
\* aborts that option only: the call that held it is still running its
\* loop, so its other options and its turn advance are still to come.
C11_AbandonOnlySubset ==
    [][ (AtBuildOption /\ ~Recurses) =>
            /\ Len(stack') = Len(stack)
            /\ stack'[Len(stack)].pc = "options"
      ]_vars

\* Every call on the stack.
Frames == {stack[i] : i \in DOMAIN stack}

\* C12: in every state of the search a path owns or is building at most
\* one geode robot.
C12_AtMostOneGeodeRobot ==
    phase = "search" =>
        \A call \in Frames :
            call.robot_total.geode + call.robot_construction.geode <= 1

\* C12 witness: a path that owns a geode robot reaches a later decision
\* where a geode robot is affordable again.
C12_Witness ==
    /\ AtBuildOption
    /\ Top.robot_total.geode = 1
    /\ "GeodeRobot" \in Range(CurrentOption)

\* The call a call makes to advance the turn when nothing was built.
build_nothing_successor(call) ==
    Call(collect_resources(call.resource_total, call.robot_total),
         finish_construction(call.robot_total, blank),
         blank, call.time_remaining - 1, FALSE)

\* C13: the turn advance runs once per decision: a call whose loop recursed
\* into the empty option (whose callee generated the build-nothing
\* successor at time_remaining - 1) does not generate that successor again.
C13_AdvanceOncePerDecision ==
    [][ ~( /\ phase = "search" /\ stack # << >>
           /\ Top.pc = "options"
           /\ Top.next_option > 1
           /\ Top.build_options[1] = << >>
           /\ Recurses
           /\ stack'[Len(stack')] = build_nothing_successor(Top) )
      ]_vars

\* The step recurses into a build option that holds a geode robot.
CommitsGeodeRobot ==
    /\ AtBuildOption
    /\ Recurses
    /\ "GeodeRobot" \in Range(CurrentOption)

\* C14: within one search earliest_geode_robot_time is the largest
\* time_remaining at which an option with a geode robot was recursed into,
\* 0 if none was: it starts at 0, changes only in a step that recurses into
\* such an option, then to that step's time_remaining and upwards, and is
\* at least that time_remaining after every such step.
C14_EarliestIsLatestCommit ==
    [][ /\ (phase = "idle" /\ phase' = "search") =>
               earliest_geode_robot_time' = 0
        /\ (phase = "search"
                /\ earliest_geode_robot_time' # earliest_geode_robot_time) =>
               /\ CommitsGeodeRobot
               /\ earliest_geode_robot_time' = Top.time_remaining
               /\ earliest_geode_robot_time' > earliest_geode_robot_time
        /\ CommitsGeodeRobot =>
               earliest_geode_robot_time' >= Top.time_remaining
      ]_vars

\* C14 witness: the counter has been raised and a later decision of the
\* search has a geode robot among its options.
C14_Witness ==
    /\ AtBuildOption
    /\ "GeodeRobot" \in Range(CurrentOption)
    /\ earliest_geode_robot_time > Top.time_remaining

\* robot_construction of a build option: 1 for each robot type it holds.
option_construction(combo) ==
    NewBag(IF "OreRobot" \in Range(combo) THEN 1 ELSE 0,
           IF "ClayRobot" \in Range(combo) THEN 1 ELSE 0,
           IF "ObsidianRobot" \in Range(combo) THEN 1 ELSE 0,
           IF "GeodeRobot" \in Range(combo) THEN 1 ELSE 0)

\* The option the running call is about to process passes the prune tests.
PassesPrune ==
    ~prune(Top.time_remaining, Top.robot_total, option_construction(CurrentOption))

\* C15: for an option with a geode robot: time_remaining above the counter
\* sets the counter and the option proceeds; below it the option is not
\* recursed into and the counter is unchanged; equal, the option proceeds
\* and the counter is unchanged.  An option without a geode robot leaves
\* the counter alone and proceeds whatever the counter is.  (An option
\* that proceeds is recursed into iff it passes the prune tests.)
C15_TerminalUnitPruning ==
    [][ AtBuildOption =>
            IF "GeodeRobot" \in Range(CurrentOption)
            THEN /\ Top.time_remaining > earliest_geode_robot_time =>
                        /\ earliest_geode_robot_time' = Top.time_remaining
                        /\ Recurses <=> PassesPrune
                 /\ Top.time_remaining < earliest_geode_robot_time =>
                        /\ ~Recurses
                        /\ earliest_geode_robot_time' = earliest_geode_robot_time
                 /\ Top.time_remaining = earliest_geode_robot_time =>
                        /\ earliest_geode_robot_time' = earliest_geode_robot_time
                        /\ Recurses <=> PassesPrune
            ELSE /\ earliest_geode_robot_time' = earliest_geode_robot_time
                 /\ Recurses <=> PassesPrune
      ]_vars

\* C15 witness: an option with a geode robot at the very time_remaining of
\* the counter (an earlier branch built one in the same minute).
C15_Witness ==
    /\ AtBuildOption
    /\ "GeodeRobot" \in Range(CurrentOption)
    /\ earliest_geode_robot_time > 0
    /\ Top.time_remaining = earliest_geode_robot_time

\* The summed cost of one robot of each type of a set of robot types.
subset_cost(bp, types) ==
    LET part(robot, bag) == IF robot \in types THEN bag ELSE blank
        o == part("OreRobot", bp.ore_robot)
        c == part("ClayRobot", bp.clay_robot)
        b == part("ObsidianRobot", bp.obsidian_robot)
        g == part("GeodeRobot", bp.geode_robot)
    IN NewBag(o.ore + c.ore + b.ore + g.ore,
              o.clay + c.clay + b.clay + g.clay,
              o.obsidian + c.obsidian + b.obsidian + g.obsidian,
              0)

\* C16: the build options of a decision are the empty option and every one
\* of the 15 non-empty subsets of the four robot types whose summed cost is
\* component-wise <= the stock, each once; the call made for an option gets
\* the stock minus that cost and a robot_construction of 1 for each type of
\* the option and 0 elsewhere.
C16_BuildOptions ==
    [][ (phase = "search" /\ stack # << >> /\ Top.pc = "options") =>
            /\ Len(ROBOT_COMBOS) = 15
            /\ {Range(combo) : combo \in Range(ROBOT_COMBOS)}
                   = (SUBSET Range(RobotTypes)) \ {{}}
            /\ \A combo \in Range(ROBOT_COMBOS) : Len(combo) = Cardinality(Range(combo))
            /\ Range(Top.build_options)
                   = {<< >>} \cup
                     {combo \in Range(ROBOT_COMBOS) :
                          BagLeq(subset_cost(blueprint, Range(combo)), Top.resource_total)}
            /\ Len(Top.build_options) = Cardinality(Range(Top.build_options))
            /\ (AtBuildOption /\ Recurses) =>
                   LET cost == subset_cost(blueprint, Range(CurrentOption))
                       callee == stack'[Len(stack')]
                   IN /\ callee.resource_total
                             = NewBag(Top.resource_total.ore - cost.ore,
                                      Top.resource_total.clay - cost.clay,
                                      Top.resource_total.obsidian - cost.obsidian,
                                      Top.resource_total.geode)
                      /\ callee.robot_construction = option_construction(CurrentOption)
      ]_vars

\* C16 witness: a call made for an option of two or more robots that had a
\* cost.
C16_Witness ==
    /\ phase = "search" /\ Len(stack) >= 2
    /\ Top.pc = "entry" /\ Top.skip_build
    /\ Top.robot_construction.clay + Top.robot_construction.obsidian
           + Top.robot_construction.geode >= 2
    /\ Top.resource_total # stack[Len(stack) - 1].resource_total

\* The step enters a call for another minute than the caller's: the turn
\* advance.
AdvancesTurn ==
    /\ phase = "search" /\ stack # << >>
    /\ Recurses
    /\ stack'[Len(stack')].time_remaining # Top.time_remaining

\* C17: the turn advance enters a call with resource_total + robot_total
\* (the robots owned before this minute's construction completes),
\* robot_total + robot_construction, a blank robot_construction,
\* time_remaining - 1 and skip_build = false, and changes neither
\* geode_totals nor earliest_geode_robot_time; recursing into a build
\* option keeps time_remaining and sets skip_build.
C17_TurnAdvance ==
    [][ /\ AdvancesTurn =>
               LET callee == stack'[Len(stack')]
               IN /\ callee.resource_total
                         = NewBag(Top.resource_total.ore + Top.robot_total.ore,
                                  Top.resource_total.clay + Top.robot_total.clay,
                                  Top.resource_total.obsidian + Top.robot_total.obsidian,
                                  Top.resource_total.geode + Top.robot_total.geode)
                  /\ callee.robot_total
                         = NewBag(Top.robot_total.ore + Top.robot_construction.ore,
                                  Top.robot_total.clay + Top.robot_construction.clay,
                                  Top.robot_total.obsidian + Top.robot_construction.obsidian,
                                  Top.robot_total.geode + Top.robot_construction.geode)
                  /\ callee.robot_construction = blank
                  /\ callee.time_remaining = Top.time_remaining - 1
                  /\ callee.skip_build = FALSE
                  /\ geode_totals' = geode_totals
                  /\ earliest_geode_robot_time' = earliest_geode_robot_time
        /\ (phase = "search" /\ stack # << >> /\ Recurses /\ ~AdvancesTurn) =>
               stack'[Len(stack')].skip_build = TRUE
      ]_vars

\* C17 witness: a call entered by a turn advance that completed a clay
\* robot: the robot is owned and has produced nothing yet.
C17_Witness ==
    /\ phase = "search" /\ Len(stack) >= 2
    /\ Top.pc = "entry" /\ ~Top.skip_build
    /\ stack[Len(stack) - 1].robot_construction.clay = 1
    /\ stack[Len(stack) - 1].robot_total.clay = 0
    /\ Top.robot_total.clay = 1
    /\ Top.resource_total.clay = stack[Len(stack) - 1].resource_total.clay

\* C18: every call of the search with an ore robot under construction has
\* time_remaining > 14, with a clay robot under construction
\* time_remaining > 7, with an obsidian robot under construction
\* time_remaining > 4.
C18_DominationThresholds ==
    \A call \in p1_calls :
        /\ call.robot_construction.ore > 0 => call.time_remaining > 14
        /\ call.robot_construction.clay > 0 => call.time_remaining > 7
        /\ call.robot_construction.obsidian > 0 => call.time_remaining > 4

\* C18 witness: at one depth of a 24-minute search there are calls with an
\* ore robot and calls with a clay robot under construction.
C18_Witness ==
    /\ p1_phase = "search"
    /\ \E call \in p1_calls : call.robot_construction.ore > 0
    /\ \E call \in p1_calls :
           call.robot_construction.clay > 0 /\ call.time_remaining < 14

\* C19: at time_remaining = 2 an option is recursed into only if the path
\* owns a geode robot or the option builds one; every call at
\* time_remaining = 1 that a turn advance entered owns a geode robot, and
\* with time_allowed >= 2 every call at time_remaining = 0 (whose geode
\* stock is recorded) holds at least one geode.
C19_LastTurns ==
    phase = "search" =>
        \A call \in Frames :
            /\ (call.time_remaining = 2 /\ call.skip_build) =>
                   call.robot_total.geode + call.robot_construction.geode >= 1
            /\ (call.time_remaining = 1 /\ time_allowed >= 2) =>
                   call.robot_total.geode >= 1
            /\ (call.time_remaining = 0 /\ time_allowed >= 2) =>
                   call.resource_total.geode >= 1

\* C19 witness: a search of two minutes or more has reached
\* time_remaining = 0.
C19_Witness ==
    /\ phase = "search" /\ stack # << >>
    /\ time_allowed >= 2
    /\ Top.time_remaining = 0
    /\ Top.resource_total.geode >= 1

\* C20: the decision runs iff skip_build is false and time_remaining > 1:
\* no call with time_remaining <= 1 has a robot under construction, a call
\* entered with skip_build = true lists no build options and its first
\* step is the turn advance.
C20_DecisionGuard ==
    [][ phase = "search" =>
            /\ \A call \in Frames :
                   /\ call.time_remaining <= 1 => call.robot_construction = blank
                   /\ call.pc = "options" =>
                          ~call.skip_build /\ call.time_remaining > 1
                   /\ call.skip_build => call.build_options = << >>
            /\ (stack # << >> /\ Top.pc = "entry" /\ stack' # stack
                    /\ Top.time_remaining > 0) =>
                   /\ (Len(stack') = Len(stack) /\ stack'[Len(stack)].pc = "options")
                          <=> (~Top.skip_build /\ Top.time_remaining > 1)
                   /\ (Top.skip_build \/ Top.time_remaining <= 1) => AdvancesTurn
      ]_vars

\* C20 witness: a call entered for a build option (skip_build = true) that
\* could afford a further robot.
C20_Witness ==
    /\ phase = "search" /\ stack # << >>
    /\ Top.pc = "entry" /\ Top.skip_build
    /\ Len(build_options(blueprint, Top.resource_total)) > 1

\* No component of a bag is below 0 (as a u64, none has wrapped around).
NonNegative(bag) ==
    bag.ore >= 0 /\ bag.clay >= 0 /\ bag.obsidian >= 0 /\ bag.geode >= 0

\* resource_total of the running call after the first k robots of the build
\* option it is about to process have been paid for.
stock_after(k) ==
    build_robots(blueprint, SubSeq(CurrentOption, 1, k), Top.time_remaining,
                 [returned |-> FALSE,
                  earliest |-> earliest_geode_robot_time,
                  resource_total |-> Top.resource_total,
                  robot_construction |-> blank]).resource_total

\* C21: no resource counter underflows: the stock of every call has its
\* four components >= 0, and so has the stock after each robot of a build
\* option that is being paid for, midway through the option included.
C21_NoUnderflow ==
    phase = "search" =>
        /\ \A call \in Frames : NonNegative(call.resource_total)
        /\ AtBuildOption =>
               \A k \in 0 .. Len(CurrentOption) : NonNegative(stock_after(k))

\* C21 witness: a call entered for a build option of two or more robots,
\* whose cost left the stock with less ore than its caller held.
C21_Witness ==
    /\ phase = "search" /\ Len(stack) >= 2
    /\ Top.skip_build
    /\ Top.robot_construction.ore + Top.robot_construction.clay
           + Top.robot_construction.obsidian + Top.robot_construction.geode >= 2
    /\ Top.resource_total.ore < stack[Len(stack) - 1].resource_total.ore

\* The callers of the running call that are in their turn advance.
advances_on_path == {i \in 1 .. Len(stack) - 1 : stack[i].pc = "return"}

\* The step ends a call that has made no call itself: the end of a path.
EndsPath ==
    /\ phase = "search" /\ stack # << >>
    /\ Len(stack') < Len(stack)
    /\ Top.pc # "return"

\* C22 (safety): time_remaining is never below 0 and is decremented only
\* when positive; the path to the running call holds exactly
\* time_allowed - time_remaining <= time_allowed turn advances; a call at
\* time_remaining = 0 is the last of its path; a path ends either in the
\* terminal case, which records its total, or in a build option abandoned
\* by the geode-robot test or a prune test.
C22_PathsAreBounded ==
    [][ /\ phase = "search" =>
              /\ \A call \in Frames :
                     call.time_remaining \in 0 .. time_allowed
              /\ \A i \in DOMAIN stack :
                     stack[i].time_remaining = 0 => i = Len(stack)
              /\ stack # << >> =>
                     Cardinality(advances_on_path)
                         = time_allowed - Top.time_remaining
        /\ AdvancesTurn => Top.time_remaining > 0
        /\ EndsPath =>
              \/ /\ Top.pc = "entry" /\ Top.time_remaining = 0
                 /\ Top.resource_total.geode \in geode_totals'
              \/ /\ AtBuildOption /\ Top.time_remaining > 0
      ]_vars

\* C22 (liveness): simulate_blueprint terminates: every search that has
\* started returns a quality level.
C22_Terminates ==
    C22_PathsAreBounded /\ (phase = "search" ~> phase = "done")

\* C22 witness: a search over MaxTime minutes has returned after paths that
\* ended with different geode totals.
C22_Witness ==
    /\ phase = "done" /\ time_allowed = MaxTime
    /\ Cardinality(geode_totals) >= 2

\* C23: for every operation tree of Nop, Add, Subtract, Multiply and Divide
\* nodes, evaluating the text of generate_monkey_expression("root") by
\* convert_to_rpn and evaluate_rpn_expression has the outcome of
\* determine_monkey_yell_value("root"): the same integer, or a panic (a
\* division by zero) in both.
C23_ExpressionRoundTrip ==
    yell_phase = "evaluated" => evaluated = yell

\* C23 witness: an evaluated tree whose root divides a negative left
\* operand, itself the result of an operation, with a remainder.
C23_Witness ==
    /\ yell_phase = "evaluated"
    /\ ~yell.panic
    /\ monkey_ops["root"].op = "Divide"
    /\ monkey_ops[monkey_ops["root"].left].op # "Nop"
    /\ LET left == determine_monkey_yell_value(monkey_ops["root"].left, monkey_ops)
           right == determine_monkey_yell_value(monkey_ops["root"].right, monkey_ops)
       IN /\ left.value < 0
          /\ Abs(left.value) % Abs(right.value) # 0

\* The humn side never panics and is strictly monotone in humn over 0 and
\* the initial interval of the search.
HumnSideMonotone ==
    LET result(humn) == calculate_result_for_humn_value(humn_side, humn)
    IN /\ \A humn \in 0 .. MaxHumn : ~result(humn).panic
       /\ \/ \A humn \in 1 .. MaxHumn : result(humn - 1).value < result(humn).value
          \/ \A humn \in 1 .. MaxHumn : result(humn - 1).value > result(humn).value

\* The humn values of the initial interval, its two limits included, for
\* which the humn side equals the target.
humn_solutions ==
    {humn \in 1 .. MaxHumn :
        calculate_result_for_humn_value(humn_side, humn) = Value(target)}

\* C24: when the humn side is monotone and some humn of the initial
\* interval, its limits included, makes it equal to the target, every
\* iteration of the loop either returns a humn for which the humn side
\* equals the target or strictly shrinks the interval, so that the search
\* terminates.
C24_SearchShrinks ==
    (yell_phase = "loop" /\ HumnSideMonotone /\ humn_solutions # {}) =>
        LET step == search_step(humn_side, target, testval0, testval1,
                                lower, upper)
        IN \/ step.outcome = "return" /\ step.humn \in humn_solutions
           \/ /\ step.outcome = "loop"
              /\ step.upper - step.lower < upper - lower

\* C25: whenever chars is shorter than marker_len (the empty input
\* included) find_marker_index neither underflows nor reads out of bounds:
\* its call ends in None.
C25_ShortInputReturnsNone ==
    Len(chars) < marker_len => marker_phase \in {"call", "loop", "none"}

\* The marker_len characters of cs ending at position k (counted from 1)
\* are pairwise different.
pairwise_different(cs, k, n) ==
    \A i, j \in (k - n + 1) .. k : i # j => cs[i] # cs[j]

marker_positions(cs, n) == {k \in n .. Len(cs) : pairwise_different(cs, k, n)}

\* C8: for chars.len() >= marker_len >= 1, find_marker_index returns Some(k)
\* with k the smallest number of characters such that the marker_len
\* characters ending at k are pairwise different, and None only when no such
\* window exists; it does not panic.
C8_SmallestMarker ==
    (Len(chars) >= marker_len /\ marker_len >= 1) =>
        /\ marker_phase \notin {"panic_overflow", "panic_index"}
        /\ marker_phase = "some" =>
               /\ marker_positions(chars, marker_len) # {}
               /\ marker_index = Min(marker_positions(chars, marker_len))
        /\ marker_phase = "none" => marker_positions(chars, marker_len) = {}

\* A marker found after the first window of an input with room for it.
C8_Witness ==
    /\ marker_phase = "some"
    /\ marker_len >= 2
    /\ Len(chars) >= marker_len
    /\ marker_index > marker_len

\* C9: is_adjacent returns true for each of the eight points of
\* get_surrounding_points, and false for a point more than one unit away
\* on the x-axis or on the y-axis.
C9_IsAdjacentChecksAdjacency ==
    point_phase = "is_adjacent" =>
        /\ other_point \in Range(get_surrounding_points(point)) => adjacent
        /\ (Abs(point.x - other_point.x) > 1 \/ Abs(point.y - other_point.y) > 1)
               => ~adjacent

\* One step of a path: to an orthogonal neighbour present in the heightmap
\* whose height is at most the current height plus 1.
can_step(hm, p, q) ==
    /\ q \in DOMAIN hm
    /\ Abs(p.x - q.x) + Abs(p.y - q.y) = 1
    /\ hm[q] <= hm[p] + 1

\* The points some path of at most k steps reaches from a point.
RECURSIVE reachable_within(_, _, _)
reachable_within(hm, from, k) ==
    IF k = 0 THEN {from}
    ELSE LET nearer == reachable_within(hm, from, k - 1)
         IN nearer \cup {q \in DOMAIN hm : \E p \in nearer : can_step(hm, p, q)}

\* C10: get_min_steps_to_end returns the minimum number of steps of a path
\* from start to end: a path of that length exists and no shorter one.
C10_MinSteps ==
    steps_phase = "returned" =>
        /\ end \in reachable_within(heightmap, start, min_steps)
        /\ min_steps > 0 => end \notin reachable_within(heightmap, start, min_steps - 1)

\* A returned path that the heights force to be longer than the distance.
C10_Witness ==
    /\ steps_phase = "returned"
    /\ min_steps > Abs(start.x - end.x) + Abs(start.y - end.y)


\* ------------------------------------------------------------------------
\* Specifications.
\* ------------------------------------------------------------------------
\* The variables of the machines a specification does not run.
Idle19 ==
    /\ blueprint = ExampleBlueprint1
    /\ time_allowed = 0
    /\ geode_totals = {}
    /\ earliest_geode_robot_time = 0
    /\ stack = << >>
    /\ phase = "off"
    /\ quality = 0
    /\ results = << >>

IdleP1 ==
    /\ p1_blueprints = << >>
    /\ p1_next = 1
    /\ p1_total = 0
    /\ p1_phase = "off"
    /\ p1_calls = {}
    /\ p1_geode_totals = {}
    /\ p1_quality = 0

Idle06 ==
    /\ chars = << >>
    /\ marker_len = 1
    /\ overflow_checks = FALSE
    /\ cursor = 0
    /\ cursor_end = 0
    /\ marker_phase = "off"
    /\ marker_index = 0

IdlePt ==
    /\ point = NewPoint(0, 0)
    /\ other_point = NewPoint(0, 0)
    /\ point_phase = "off"
    /\ adjacent = FALSE
    /\ surrounding = << >>

Idle12 ==
    /\ heightmap = << >>
    /\ start = NewPoint(0, 0)
    /\ end = NewPoint(0, 0)
    /\ visit_queue = << >>
    /\ visited = {}
    /\ steps_phase = "off"
    /\ min_steps = 0

\* The geode search, call by call, on small blueprints and horizons.
Idle21 ==
    /\ monkey_ops = [root |-> Nop(0)]
    /\ yell_phase = "idle"
    /\ yell = Value(0)
    /\ expression = << >>
    /\ rpn = [panic |-> FALSE, rpn |-> << >>]
    /\ evaluated = Value(0)
    /\ humn_side = << >> /\ target = 0 /\ testval0 = 0 /\ testval1 = 0
    /\ lower = 0 /\ upper = 0 /\ humn_found = 0

Init == Init19 /\ IdleP1 /\ Idle06 /\ IdlePt /\ Idle12 /\ Idle21

Next ==
    \/ SimulateBlueprint /\ UNCHANGED <<varsP1, vars06, varsPt, vars12, vars21>>
    \/ RecordTotal /\ UNCHANGED <<varsP1, vars06, varsPt, vars12, vars21>>
    \/ ListBuildOptions /\ UNCHANGED <<varsP1, vars06, varsPt, vars12, vars21>>
    \/ BuildOption /\ UNCHANGED <<varsP1, vars06, varsPt, vars12, vars21>>
    \/ Advance /\ UNCHANGED <<varsP1, vars06, varsPt, vars12, vars21>>
    \/ Return /\ UNCHANGED <<varsP1, vars06, varsPt, vars12, vars21>>
    \/ Finish /\ UNCHANGED <<varsP1, vars06, varsPt, vars12, vars21>>
    \/ NextHorizon /\ UNCHANGED <<varsP1, vars06, varsPt, vars12, vars21>>

Spec == Init /\ [][Next]_vars

\* The program is one sequential thread: whatever step it can take next, it
\* takes.  The searches of the blueprints with id 1 are followed: the id is
\* read by quality_level alone, after the search.
InitTerminates == Init /\ blueprint.id = 1

SpecTerminates == InitTerminates /\ [][Next]_vars /\ WF_vars(Next)

\* solve_part1 on the example blueprints.
InitPart1 == InitP1 /\ Idle19 /\ Idle06 /\ IdlePt /\ Idle12 /\ Idle21

NextPart1 ==
    \/ P1Simulate /\ UNCHANGED <<vars19, vars06, varsPt, vars12, vars21>>
    \/ P1ExploreDepth /\ UNCHANGED <<vars19, vars06, varsPt, vars12, vars21>>
    \/ P1Return /\ UNCHANGED <<vars19, vars06, varsPt, vars12, vars21>>
    \/ P1NextBlueprint /\ UNCHANGED <<vars19, vars06, varsPt, vars12, vars21>>

SpecPart1 == InitPart1 /\ [][NextPart1]_vars

\* find_marker_index on short inputs.
InitMarker == Init06 /\ Idle19 /\ IdleP1 /\ IdlePt /\ Idle12 /\ Idle21

NextMarker ==
    \/ EnterLoop /\ UNCHANGED <<vars19, varsP1, varsPt, vars12, vars21>>
    \/ ScanWindow /\ UNCHANGED <<vars19, varsP1, varsPt, vars12, vars21>>
    \/ ReturnNone /\ UNCHANGED <<vars19, varsP1, varsPt, vars12, vars21>>

SpecMarker == InitMarker /\ [][NextMarker]_vars

\* Point2D on the points around the origin.
InitPoint == InitPt /\ Idle19 /\ IdleP1 /\ Idle06 /\ Idle12 /\ Idle21

NextPoint ==
    \/ IsAdjacent /\ UNCHANGED <<vars19, varsP1, vars06, vars12, vars21>>
    \/ GetSurroundingPoints /\ UNCHANGED <<vars19, varsP1, vars06, vars12, vars21>>

SpecPoint == InitPoint /\ [][NextPoint]_vars

\* get_min_steps_to_end on small heightmaps.
InitSteps == Init12 /\ Idle19 /\ IdleP1 /\ Idle06 /\ IdlePt /\ Idle21

NextSteps ==
    \/ GetMinStepsToEnd /\ UNCHANGED <<vars19, varsP1, vars06, varsPt, vars21>>
    \/ VisitNext /\ UNCHANGED <<vars19, varsP1, vars06, varsPt, vars21>>
    \/ DidNotReachEnd /\ UNCHANGED <<vars19, varsP1, vars06, varsPt, vars21>>

SpecSteps == InitSteps /\ [][NextSteps]_vars

\* day21.rs: the value of "root" and the evaluation of its expression text.
InitExpression == Init21 /\ Idle19 /\ IdleP1 /\ Idle06 /\ IdlePt /\ Idle12

NextExpression ==
    \/ SolvePart1 /\ UNCHANGED <<vars19, varsP1, vars06, varsPt, vars12>>
    \/ GenerateMonkeyExpression /\ UNCHANGED <<vars19, varsP1, vars06, varsPt, vars12>>
    \/ ConvertToRpn /\ UNCHANGED <<vars19, varsP1, vars06, varsPt, vars12>>
    \/ EvaluateRpnExpression /\ UNCHANGED <<vars19, varsP1, vars06, varsPt, vars12>>

SpecExpression == InitExpression /\ [][NextExpression]_vars

\* day21.rs: solve_part2.
NextSearch ==
    \/ SolvePart2 /\ UNCHANGED <<vars19, varsP1, vars06, varsPt, vars12>>
    \/ BinarySearch /\ UNCHANGED <<vars19, varsP1, vars06, varsPt, vars12>>

SpecSearch == InitExpression /\ [][NextSearch]_vars

====
